---------------------------- MODULE Spec2Model ----------------------------
(***************************************************************************)
(* Model of the background discovery engine of IOT-SCANNER-CY/scanner.py:  *)
(* the scanner thread (background_scanner / scan_once), the shared         *)
(* registry (devices, device_count_history, network_cidr) guarded by       *)
(* `lock`, and the reader route api_summary.                               *)
(*                                                                         *)
(* Time is in whole seconds.  Two consecutive cycles take their `now`      *)
(* SCAN_INTERVAL_SEC + d seconds apart, d being the duration of the cycle  *)
(* (d = 0 is the exactly-on-schedule run).                                 *)
(***************************************************************************)
EXTENDS Integers, Sequences, FiniteSets, TLC

(* ------------------------------ settings ------------------------------ *)
SCAN_INTERVAL_SEC == 15

STALE_CYCLES == 3

HISTORY_MAX == 200

HISTORY_SHOWN == 60

COMMON_PORTS == <<21, 22, 23, 80, 443, 554, 8080>>

FALLBACK_CIDR == "192.168.1.0/24"

INITIAL_CIDR == "0.0.0.0/0"

None == "None"

(* ------------------------------- bounds ------------------------------- *)
\* hosts of the scanned segment; all_hosts() sorts them, 1 < 2 < ...
NumHosts == 2

\* scheduler iterations explored
MaxCycles == 2

\* duration, in seconds, of a cycle that is not instantaneous
MaxScanSecs == 31

\* the bounds of the timing specification: more iterations, each
\* instantaneous or one second long, over hosts that report no detail
NumHostsT == 1

MaxCyclesT == 5

MaxScanSecsT == 1

\* the bounds of the eviction specification: hosts that report no detail
NumHostsE == 2

MaxCyclesE == 2

\* duration, in seconds, of a cycle shorter than the eviction window: two such
\* cycles with their sleeps outlast the window, one does not
ShortScanSecs == 16

MaxCyclesZ == 3

\* iterations of the request specification
MaxCyclesR == 2

\* the bounds of the identity specification: hosts that report no open port
NumHostsI == 1

MaxCyclesI == 2

\* iterations of the re-discovery specification: record, evict, record again
MaxCyclesX == 3

\* the bounds of the port specification: hosts that report no identity
NumHostsP == 2

MaxCyclesP == 2

\* the bound of the function specification: ports open at once on the
\* classified host
MaxOpen == 2

\* the bounds of the history specification: it starts from a history one
\* sample short of the trim
NumHostsH == 1

MaxCyclesH == 3

\* concurrent api_summary requests
NumReaders == 1

Hosts == 1 .. NumHosts

Readers == 1 .. NumReaders

\* the candidate ports whose state the modelled probes report
ProbePorts == {21, 80}

(* --------------------------- pure functions --------------------------- *)
RECURSIVE SortedSeq(_)
\* sorted(set(xs)): the ascending sequence of a set of integers
SortedSeq(S) ==
    IF S = {} THEN <<>>
    ELSE LET m == CHOOSE x \in S : \A y \in S : x <= y
         IN  <<m>> \o SortedSeq(S \ {m})

Range(s) == {s[i] : i \in 1 .. Len(s)}

\* the keys of VULN_HINTS
VulnPorts == {21, 22, 23, 80, 443, 554, 8080}

\* VULN_HINTS[p] as the pair (severity, message)
VULN_HINTS(p) ==
    CASE p = 21   -> <<"HIGH", "FTP (21)">>
      [] p = 22   -> <<"INFO", "SSH (22)">>
      [] p = 23   -> <<"CRITICAL", "Telnet (23)">>
      [] p = 80   -> <<"MEDIUM", "HTTP (80)">>
      [] p = 443  -> <<"INFO", "HTTPS (443)">>
      [] p = 554  -> <<"MEDIUM", "RTSP (554)">>
      [] p = 8080 -> <<"MEDIUM", "Alt HTTP (8080)">>

\* f"[{sev}] {msg}"
FormatVuln(p) == "[" \o VULN_HINTS(p)[1] \o "] " \o VULN_HINTS(p)[2]

\* Classify leaving its loop after the first port
Classify_FirstPortOnly(ports) ==
    IF ports = <<>> THEN <<>>
    ELSE IF Head(ports) \in VulnPorts THEN <<FormatVuln(Head(ports))>> ELSE <<>>

RECURSIVE Classify(_)
\* the loop building `vulns` from the sorted open ports
Classify(ports) ==
    IF ports = <<>> THEN <<>>
    ELSE (IF Head(ports) \in VulnPorts THEN <<FormatVuln(Head(ports))>> ELSE <<>>)
         \o Classify(Tail(ports))

(* ------------------------- the Locator's inputs ------------------------ *)
\* what netifaces reports: a default route or none, the interface's address
\* and netmask (or None), or an exception of the query
LocatorInputs ==
    { [fault |-> FALSE, route |-> TRUE,  addr |-> "10.0.0.5", mask |-> "255.255.255.0"],
      [fault |-> FALSE, route |-> TRUE,  addr |-> "10.0.0.5", mask |-> None],
      [fault |-> FALSE, route |-> FALSE, addr |-> None,       mask |-> None],
      [fault |-> TRUE,  route |-> FALSE, addr |-> None,       mask |-> None] }

\* the outcome of a call that raises instead of returning
Raised == "raised"

\* str(IPv4Network(ip/netmask, strict=False)) for the modelled interfaces;
\* ipaddress raises ValueError for an address or a netmask it cannot parse
NetworkOf(addr, mask) ==
    CASE addr = "10.0.0.5"    /\ mask = "255.255.255.0" -> "10.0.0.0/24"
      [] addr = "10.0.0.5"    /\ mask = "255.255.0.0"   -> "10.0.0.0/16"
      [] addr = "192.168.7.9" /\ mask = "255.255.255.0" -> "192.168.7.0/24"
      [] addr = "192.168.7.9" /\ mask = "255.255.0.0"   -> "192.168.0.0/16"
      [] OTHER -> Raised

\* get_local_network without its try/except: what the body raises leaves the call
get_local_network_NoExcept(e) ==
    IF e.fault THEN Raised
    ELSE IF ~e.route THEN FALLBACK_CIDR
    ELSE IF e.addr \in {None, ""} \/ e.mask \in {None, ""} THEN FALLBACK_CIDR
    ELSE NetworkOf(e.addr, e.mask)

get_local_network(e) ==
    IF e.fault THEN FALLBACK_CIDR
    ELSE IF ~e.route THEN FALLBACK_CIDR
    ELSE IF e.addr \in {None, ""} \/ e.mask \in {None, ""} THEN FALLBACK_CIDR
    ELSE IF NetworkOf(e.addr, e.mask) = Raised THEN FALLBACK_CIDR
    ELSE NetworkOf(e.addr, e.mask)

\* the interface states a Locator call is checked against: the query raises
\* or not, a default route or none, the address and the netmask netifaces
\* reports (missing, empty, well-formed, malformed)
LocatorEnvs ==
    [fault : BOOLEAN, route : BOOLEAN,
     addr : {None, "", "10.0.0.5", "192.168.7.9", "10.0.0.500"},
     mask : {None, "", "255.255.255.0", "255.255.0.0", "255.0.255.0"}]

(* ------------------------------- state -------------------------------- *)
VARIABLES
    devices,                \* ip -> record, the device map
    device_count_history,   \* the history of device counts
    network_cidr,           \* the range exposed to readers
    lock,                   \* <<"free">>, <<"scanner">> or <<"reader", r>>
    pc,                     \* the scanner thread's position
    nm,                     \* the PortScanner's last scan result: host -> entry
    local_cidr, now, seen_ips, hosts_left, host, mac, vendor, open_ports, vulns,
    clock,                  \* wall-clock time, seconds
    cycle,                  \* scheduler iterations started so far
    rpc,                    \* reader -> "idle" | "responding"
    response,               \* reader -> the response it is building under the lock
    outcome,                \* how the last finished iteration ended
    sweep_up,               \* hosts the latest sweep reported up
    probed,                 \* host -> open ports found by this cycle's port scan
    stable,                 \* the registry as the last finished iteration left it
    last_rec,               \* host -> `now` of the last cycle that merged it, -1 if none
    last_up,                \* host -> `now` of the last completed cycle whose sweep reported it up
    missed,                 \* host -> completed cycles since, whose sweep did not report it up
    appended,               \* every sample ever appended to the history, in order
    env                     \* what netifaces reports to the Locator call under check

registry == <<devices, device_count_history, network_cidr>>

locals == <<nm, local_cidr, now, seen_ips, hosts_left, host, mac, vendor, open_ports, vulns>>

readers == <<rpc, response>>

history_vars == <<outcome, sweep_up, probed, stable, last_rec, last_up, missed, appended, env>>

vars == <<registry, lock, pc, locals, clock, cycle, readers, history_vars>>

NoHost == 0

\* no Locator call is under check
NoEnv == [fault |-> FALSE, route |-> FALSE, addr |-> "-", mask |-> "-"]

NoResponse == [network |-> "", total |-> -1]

Free == <<"free">>

Scanner == <<"scanner">>

Reader(r) == <<"reader", r>>

Snapshot == [devices |-> devices, history |-> device_count_history, network |-> network_cidr]

Init ==
    /\ devices = <<>>
    /\ device_count_history = <<>>
    /\ network_cidr = INITIAL_CIDR
    /\ lock = Free
    /\ pc = "start"
    /\ nm = <<>>
    /\ local_cidr = ""
    /\ now = 0
    /\ seen_ips = {}
    /\ hosts_left = <<>>
    /\ host = NoHost
    /\ mac = None
    /\ vendor = None
    /\ open_ports = <<>>
    /\ vulns = <<>>
    /\ clock = 0
    /\ cycle = 1
    /\ rpc = [r \in Readers |-> "idle"]
    /\ response = [r \in Readers |-> NoResponse]
    /\ outcome = "none"
    /\ sweep_up = {}
    /\ probed = <<>>
    /\ stable = [devices |-> <<>>, history |-> <<>>, network |-> INITIAL_CIDR]
    /\ last_rec = [h \in Hosts |-> -1]
    /\ last_up = [h \in Hosts |-> -1]
    /\ missed = [h \in Hosts |-> 0]
    /\ appended = <<>>
    /\ env = NoEnv


(* ------------------------- the probe's outcomes ------------------------ *)
\* link identities a sweep may report for a host: the mac, and the vendor
\* nm[host]['vendor'] holds for that mac (or nothing)
Identities ==
    { <<None, None>>, <<"m1", None>>, <<"m1", "v1">>, <<"m2", "v2">> }

SweepEntries ==
    { [state |-> "up", mac |-> i[1], vendor |-> i[2], ports |-> <<>>] : i \in Identities }
    \cup { [state |-> "down", mac |-> None, vendor |-> None, ports |-> <<>>] }

\* results of nm.scan(hosts=local_cidr, arguments='-sn -n')
SweepResults == UNION { [S -> SweepEntries] : S \in SUBSET Hosts }

\* port -> state tables of nm.scan(hosts=host, arguments='-Pn ... -p ...')
PortTables == [ProbePorts -> {"open", "closed"}]

\* the scan result of a single-host port scan holds that host only
PortScanResult(h, table) ==
    h :> [state |-> "up", mac |-> None, vendor |-> None, ports |-> table]

\* nm.all_hosts(): the keys of the scan result, sorted
all_hosts(scan) == SortedSeq(DOMAIN scan)

\* nm[host].state() == "up", a host missing from the scan result (KeyError) not being up
IsUp(scan, h) == IF h \in DOMAIN scan THEN scan[h].state = "up" ELSE FALSE

\* the ports of nm[host] whose state is 'open', as sorted(set(...))
OpenPortsOf(entry) ==
    SortedSeq({p \in DOMAIN entry.ports : entry.ports[p] = "open"})

(* -------------------------- registry updates --------------------------- *)
\* MergedRecord with the assignment of last_seen left out: an entry that
\* exists keeps its old timestamp
MergedRecord_KeepLastSeen(devs, h, m, v, ports, vs, t) ==
    LET rec == IF h \in DOMAIN devs THEN devs[h]
               ELSE [ip |-> h, mac |-> m, vendor |-> v,
                     open_ports |-> <<>>, vulns |-> <<>>, last_seen |-> t]
    IN  [rec EXCEPT !.mac        = IF m # None /\ rec.mac = None THEN m ELSE @,
                    !.vendor     = IF v # None /\ rec.vendor = None THEN v ELSE @,
                    !.open_ports = ports,
                    !.vulns      = vs]

\* MergedRecord with the identity assigned unconditionally
MergedRecord_Overwrite(devs, h, m, v, ports, vs, t) ==
    [ip |-> h, mac |-> m, vendor |-> v, open_ports |-> ports, vulns |-> vs, last_seen |-> t]

\* MergedRecord taking every non-empty identity a cycle reports
MergedRecord_LatestIdentity(devs, h, m, v, ports, vs, t) ==
    LET rec == IF h \in DOMAIN devs THEN devs[h]
               ELSE [ip |-> h, mac |-> m, vendor |-> v,
                     open_ports |-> <<>>, vulns |-> <<>>, last_seen |-> t]
    IN  [rec EXCEPT !.mac        = IF m # None THEN m ELSE @,
                    !.vendor     = IF v # None THEN v ELSE @,
                    !.open_ports = ports,
                    !.vulns      = vs,
                    !.last_seen  = t]

\* MergedRecord with the assignment of vulns left out for an existing entry
MergedRecord_KeepsFindings(devs, h, m, v, ports, vs, t) ==
    LET rec == IF h \in DOMAIN devs THEN devs[h]
               ELSE [ip |-> h, mac |-> m, vendor |-> v,
                     open_ports |-> <<>>, vulns |-> vs, last_seen |-> t]
    IN  [rec EXCEPT !.mac        = IF m # None /\ rec.mac = None THEN m ELSE @,
                    !.vendor     = IF v # None /\ rec.vendor = None THEN v ELSE @,
                    !.open_ports = ports,
                    !.last_seen  = t]

\* devices.get(host, {...}) followed by the assignments of the merge block
MergedRecord(devs, h, m, v, ports, vs, t) ==
    LET rec == IF h \in DOMAIN devs THEN devs[h]
               ELSE [ip |-> h, mac |-> m, vendor |-> v,
                     open_ports |-> <<>>, vulns |-> <<>>, last_seen |-> t]
    IN  [rec EXCEPT !.mac        = IF m # None /\ rec.mac = None THEN m ELSE @,
                    !.vendor     = IF v # None /\ rec.vendor = None THEN v ELSE @,
                    !.open_ports = ports,
                    !.vulns      = vs,
                    !.last_seen  = t]

\* devices[host] = rec
PutDevice(devs, h, rec) ==
    [k \in DOMAIN devs \cup {h} |-> IF k = h THEN rec ELSE devs[k]]

\* Cutoff with one interval too many
Cutoff_FourIntervals(t) == t - SCAN_INTERVAL_SEC * (STALE_CYCLES + 1)

\* cutoff = now.timestamp() - (SCAN_INTERVAL_SEC * 3)
Cutoff(t) == t - SCAN_INTERVAL_SEC * STALE_CYCLES

\* StaleIps with <= for <
StaleIps_Inclusive(devs, t, seen) ==
    {ip \in DOMAIN devs : devs[ip].last_seen <= Cutoff(t) /\ ip \notin seen}

\* StaleIps comparing against now itself and without the liveness guard
StaleIps_NoGuard(devs, t, seen) ==
    {ip \in DOMAIN devs : devs[ip].last_seen <= t}

\* stale_ips
StaleIps(devs, t, seen) ==
    {ip \in DOMAIN devs : devs[ip].last_seen < Cutoff(t) /\ ip \notin seen}

\* Evict deleting only the stale entries that hold no mac
Evict_KeepsIdentified(devs, stale) ==
    [k \in DOMAIN devs \ {ip \in stale : devs[ip].mac = None} |-> devs[k]]

\* for ip in stale_ips: del devices[ip]
Evict(devs, stale) == [k \in DOMAIN devs \ stale |-> devs[k]]

\* AppendHistory trimming to the first 200 samples instead of the last
AppendHistory_KeepOldest(hist, n) ==
    LET h2 == Append(hist, n)
    IN  IF Len(h2) > HISTORY_MAX THEN SubSeq(h2, 1, HISTORY_MAX) ELSE h2

\* device_count_history.append(n), then the trim to the last 200
AppendHistory(hist, n) ==
    LET h2 == Append(hist, n)
    IN  IF Len(h2) > HISTORY_MAX
        THEN SubSeq(h2, Len(h2) - HISTORY_MAX + 1, Len(h2))
        ELSE h2

\* FinalBlock counting the devices before the stale ones are deleted
FinalBlock_CountFirst(devs, hist, t, seen) ==
    [devices |-> Evict(devs, StaleIps(devs, t, seen)),
     history |-> AppendHistory(hist, Cardinality(DOMAIN devs))]

\* FinalBlock doing nothing after a sweep without a live host
FinalBlock_SkipsEmptySweep(devs, hist, t, seen) ==
    LET kept == Evict(devs, StaleIps(devs, t, seen))
    IN  IF seen = {}
        THEN [devices |-> devs, history |-> hist]
        ELSE [devices |-> kept,
              history |-> AppendHistory(hist, Cardinality(DOMAIN kept))]

\* the device map and the history the final block leaves: the stale entries
\* deleted, then len(devices) appended
FinalBlock(devs, hist, t, seen) ==
    LET kept == Evict(devs, StaleIps(devs, t, seen))
    IN  [devices |-> kept,
         history |-> AppendHistory(hist, Cardinality(DOMAIN kept))]

(* --------------------------- the scanner thread ------------------------ *)
\* background_scanner catches whatever scan_once raises; nmap.PortScanner()
\* raises when the nmap program cannot be run.  Nothing was assigned yet.
ScanConstructFails ==
    /\ pc = "start"
    /\ pc' = "sleep"
    /\ outcome' = "aborted"
    /\ stable' = Snapshot
    /\ UNCHANGED <<registry, lock, locals, clock, cycle, readers,
                   sweep_up, probed, last_rec, last_up, missed, appended, env>>

\* the discovery sweep raises: scan_once returns
ScanSweepFails(envs) ==
    /\ pc = "start"
    /\ \E e \in envs : local_cidr' = get_local_network(e)
    /\ now' = clock
    /\ nm' = <<>>
    /\ seen_ips' = {}
    /\ sweep_up' = {}
    /\ probed' = <<>>
    /\ pc' = "sleep"
    /\ outcome' = "sweep_failed"
    /\ stable' = Snapshot
    /\ UNCHANGED <<registry, lock, hosts_left, host, mac, vendor, open_ports, vulns,
                   clock, cycle, readers, last_rec, last_up, missed, appended, env>>

\* the discovery sweep succeeds: the loop over nm.all_hosts() starts
ScanSweep(envs, results) ==
    /\ pc = "start"
    /\ \E e \in envs : local_cidr' = get_local_network(e)
    /\ now' = clock
    /\ \E result \in results :
          /\ nm' = result
          /\ hosts_left' = all_hosts(result)
          /\ sweep_up' = {h \in DOMAIN result : result[h].state = "up"}
    /\ seen_ips' = {}
    /\ probed' = <<>>
    /\ pc' = "loop"
    /\ UNCHANGED <<registry, lock, host, mac, vendor, open_ports, vulns,
                   clock, cycle, readers, outcome, stable, last_rec, last_up, missed, appended, env>>

\* nm[host] raises KeyError, or the host's state is not "up": continue
HostSkip ==
    /\ pc = "loop"
    /\ hosts_left # <<>>
    /\ LET h == Head(hosts_left)
       IN  /\ ~IsUp(nm, h)
           /\ host' = h
    /\ hosts_left' = Tail(hosts_left)
    /\ UNCHANGED <<registry, lock, pc, nm, local_cidr, now, seen_ips, mac, vendor,
                   open_ports, vulns, clock, cycle, readers, history_vars>>

\* HostProbe without the try/except around the port scan: what nm.scan
\* raises leaves scan_once and ends the cycle
HostProbe_RaiseEndsCycle(tables) ==
    /\ pc = "loop"
    /\ hosts_left # <<>>
    /\ LET h == Head(hosts_left)
       IN  /\ IsUp(nm, h)
           /\ host' = h
           /\ seen_ips' = seen_ips \cup {h}
           /\ mac' = nm[h].mac
           /\ vendor' = IF nm[h].mac # None THEN nm[h].vendor ELSE None
           /\ \/ /\ nm' = nm
                 /\ open_ports' = <<>>
                 /\ pc' = "sleep"
                 /\ outcome' = "aborted"
                 /\ stable' = Snapshot
              \/ \E table \in tables :
                    /\ nm' = PortScanResult(h, table)
                    /\ open_ports' = OpenPortsOf(nm'[h])
                    /\ pc' = "merge_wait"
                    /\ UNCHANGED <<outcome, stable>>
           /\ probed' = (h :> Range(open_ports')) @@ probed
    /\ vulns' = Classify(open_ports')
    /\ hosts_left' = Tail(hosts_left)
    /\ UNCHANGED <<registry, lock, local_cidr, now, clock, cycle, readers,
                   sweep_up, last_rec, last_up, missed, appended, env>>

\* one live host up to its merge: seen_ips.add, the identity read from nm,
\* the port scan on the same scanner object, the classification
HostProbe(tables) ==
    /\ pc = "loop"
    /\ hosts_left # <<>>
    /\ LET h == Head(hosts_left)
       IN  /\ IsUp(nm, h)
           /\ host' = h
           /\ seen_ips' = seen_ips \cup {h}
           /\ mac' = nm[h].mac
           /\ vendor' = IF nm[h].mac # None THEN nm[h].vendor ELSE None
           /\ \/ \* the port scan raises: nm keeps its result, no port is open
                 /\ nm' = nm
                 /\ open_ports' = <<>>
              \/ \E table \in tables :
                    /\ nm' = PortScanResult(h, table)
                    /\ open_ports' = OpenPortsOf(nm'[h])
           /\ probed' = (h :> Range(open_ports')) @@ probed
    /\ vulns' = Classify(open_ports')
    /\ hosts_left' = Tail(hosts_left)
    /\ pc' = "merge_wait"
    /\ UNCHANGED <<registry, lock, local_cidr, now, clock, cycle, readers,
                   outcome, sweep_up, stable, last_rec, last_up, missed, appended, env>>

\* MergeAcquire entering the per-host block without waiting for the lock
MergeAcquire_IgnoresLock ==
    /\ pc = "merge_wait"
    /\ lock' = Scanner
    /\ pc' = "merge"
    /\ UNCHANGED <<registry, locals, clock, cycle, readers, history_vars>>

\* with lock: (the per-host block)
MergeAcquire ==
    /\ pc = "merge_wait"
    /\ lock = Free
    /\ lock' = Scanner
    /\ pc' = "merge"
    /\ UNCHANGED <<registry, locals, clock, cycle, readers, history_vars>>

\* MergeHost leaving the per-host block with the lock still held
MergeHost_KeepsLock ==
    /\ pc = "merge"
    /\ devices' = PutDevice(devices, host,
                            MergedRecord(devices, host, mac, vendor, open_ports, vulns, now))
    /\ pc' = "loop"
    /\ last_rec' = [last_rec EXCEPT ![host] = now]
    /\ UNCHANGED <<device_count_history, network_cidr, lock, locals, clock, cycle, readers,
                   outcome, sweep_up, probed, stable, last_up, missed, appended, env>>

\* the per-host block and the release of the lock
MergeHost ==
    /\ pc = "merge"
    /\ devices' = PutDevice(devices, host,
                            MergedRecord(devices, host, mac, vendor, open_ports, vulns, now))
    /\ lock' = Free
    /\ pc' = "loop"
    /\ last_rec' = [last_rec EXCEPT ![host] = now]
    /\ UNCHANGED <<device_count_history, network_cidr, locals, clock, cycle, readers,
                   outcome, sweep_up, probed, stable, last_up, missed, appended, env>>

\* the loop is over; with lock: (the final block)
EvictAcquire ==
    /\ pc = "loop"
    /\ hosts_left = <<>>
    /\ lock = Free
    /\ lock' = Scanner
    /\ pc' = "evict"
    /\ UNCHANGED <<registry, locals, clock, cycle, readers, history_vars>>

\* the final block: range, eviction, history append and trim; scan_once returns
EvictAndRecord ==
    /\ pc = "evict"
    /\ network_cidr' = local_cidr
    /\ devices' = FinalBlock(devices, device_count_history, now, seen_ips).devices
    /\ device_count_history' = FinalBlock(devices, device_count_history, now, seen_ips).history
    /\ appended' = Append(appended, Cardinality(DOMAIN devices'))
    /\ lock' = Free
    /\ pc' = "sleep"
    /\ outcome' = "completed"
    /\ stable' = [devices |-> devices', history |-> device_count_history',
                  network |-> network_cidr']
    /\ last_up' = [h \in Hosts |-> IF h \in sweep_up THEN now ELSE last_up[h]]
    /\ missed' = [h \in Hosts |-> IF h \in sweep_up THEN 0 ELSE missed[h] + 1]
    /\ nm' = <<>>
    /\ hosts_left' = <<>>
    /\ host' = NoHost
    /\ mac' = None
    /\ vendor' = None
    /\ open_ports' = <<>>
    /\ vulns' = <<>>
    /\ UNCHANGED <<local_cidr, now, seen_ips, clock, cycle, readers, sweep_up, probed,
                   last_rec, env>>

\* Sleep of a loop without the try/except around scan_once: an exception
\* leaving scan_once ends the thread
Sleep_UncaughtEndsThread(maxCycles, durations) ==
    /\ pc = "sleep"
    /\ outcome # "aborted"
    /\ cycle < maxCycles
    /\ \E d \in durations : clock' = clock + d + SCAN_INTERVAL_SEC
    /\ cycle' = cycle + 1
    /\ pc' = "start"
    /\ UNCHANGED <<registry, lock, locals, readers, history_vars>>

\* the cycle's duration, then time.sleep(SCAN_INTERVAL_SEC)
Sleep(maxCycles, durations) ==
    /\ pc = "sleep"
    /\ cycle < maxCycles
    /\ \E d \in durations : clock' = clock + d + SCAN_INTERVAL_SEC
    /\ cycle' = cycle + 1
    /\ pc' = "start"
    /\ UNCHANGED <<registry, lock, locals, readers, history_vars>>

(* ------------------------------ the readers ---------------------------- *)
\* the rows, counts and tally api_summary builds from the registry
\* VulnerableCount counting every device, whatever its findings
VulnerableCount_EveryDevice(devs) == Cardinality(DOMAIN devs)

VulnerableCount(devs) == Cardinality({ip \in DOMAIN devs : devs[ip].vulns # <<>>})

\* PortTally with an entry, possibly 0, for every port of the table
PortTally_EveryTablePort(devs) ==
    [p \in VulnPorts |->
        Cardinality({ip \in DOMAIN devs : p \in Range(devs[ip].open_ports)})]

\* port_tally: one count per occurrence of a table port in a device's open_ports
PortTally(devs) ==
    LET occurrences(p) ==
            {e \in UNION {{<<ip, i>> : i \in 1 .. Len(devs[ip].open_ports)} : ip \in DOMAIN devs} :
                devs[e[1]].open_ports[e[2]] = p}
        tallied == {p \in VulnPorts : occurrences(p) # {}}
    IN  [p \in tallied |-> Cardinality(occurrences(p))]

Rows(devs) ==
    [ip \in DOMAIN devs |->
        [ip |-> ip,
         mac |-> IF devs[ip].mac # None THEN devs[ip].mac ELSE "Unknown",
         vendor |-> IF devs[ip].vendor # None THEN devs[ip].vendor ELSE "Unknown",
         open_ports |-> devs[ip].open_ports,
         vulns |-> devs[ip].vulns,
         last_seen |-> devs[ip].last_seen]]

\* LastN taking the oldest n samples instead of the newest
LastN_Oldest(s, n) == IF Len(s) > n THEN SubSeq(s, 1, n) ELSE s

LastN(s, n) == IF Len(s) > n THEN SubSeq(s, Len(s) - n + 1, Len(s)) ELSE s

Summary(devs, hist, cidr) ==
    [network |-> cidr,
     total |-> Cardinality(DOMAIN devs),
     safe |-> Cardinality(DOMAIN devs) - VulnerableCount(devs),
     vulnerable |-> VulnerableCount(devs),
     history |-> LastN(hist, HISTORY_SHOWN),
     vuln_ports |-> PortTally(devs),
     devices |-> Rows(devs)]

\* ReaderRespond writing the "Unknown" defaults of its rows back into the
\* device map
ReaderRespond_StoresDefaults(r) ==
    /\ rpc[r] = "idle"
    /\ lock = Free
    /\ lock' = Reader(r)
    /\ rpc' = [rpc EXCEPT ![r] = "responding"]
    /\ response' = [response EXCEPT ![r] = Summary(devices, device_count_history, network_cidr)]
    /\ devices' = [ip \in DOMAIN devices |->
                      [devices[ip] EXCEPT !.mac = Rows(devices)[ip].mac,
                                          !.vendor = Rows(devices)[ip].vendor]]
    /\ UNCHANGED <<device_count_history, network_cidr, pc, locals, clock, cycle,
                   history_vars>>

\* api_summary enters `with lock:` and builds its response there
ReaderRespond(r) ==
    /\ rpc[r] = "idle"
    /\ lock = Free
    /\ lock' = Reader(r)
    /\ rpc' = [rpc EXCEPT ![r] = "responding"]
    /\ response' = [response EXCEPT ![r] = Summary(devices, device_count_history, network_cidr)]
    /\ UNCHANGED <<registry, pc, locals, clock, cycle, history_vars>>

\* ReaderReturn leaving the critical section without releasing the lock
ReaderReturn_KeepsLock(r) ==
    /\ rpc[r] = "responding"
    /\ rpc' = [rpc EXCEPT ![r] = "idle"]
    /\ response' = [response EXCEPT ![r] = NoResponse]
    /\ UNCHANGED <<registry, lock, pc, locals, clock, cycle, history_vars>>

\* return jsonify(...): the response leaves with the request, the lock is released
ReaderReturn(r) ==
    /\ rpc[r] = "responding"
    /\ lock' = Free
    /\ rpc' = [rpc EXCEPT ![r] = "idle"]
    /\ response' = [response EXCEPT ![r] = NoResponse]
    /\ UNCHANGED <<registry, pc, locals, clock, cycle, history_vars>>

Next ==
    \/ ScanConstructFails
    \/ ScanSweepFails(LocatorInputs)
    \/ ScanSweep(LocatorInputs, SweepResults)
    \/ HostSkip
    \/ HostProbe(PortTables)
    \/ MergeAcquire
    \/ MergeHost
    \/ EvictAcquire
    \/ EvictAndRecord
    \/ Sleep(MaxCycles, {0, MaxScanSecs})
    \/ \E r \in Readers : ReaderRespond(r)
    \/ \E r \in Readers : ReaderReturn(r)

Spec == Init /\ [][Next]_vars

\* the timing specification: every host that answers reports no identity and
\* no open port, the Locator always finds the interface
LocatorInputsT == {e \in LocatorInputs : get_local_network(e) # FALLBACK_CIDR}

SweepResultsT ==
    {r \in SweepResults : /\ DOMAIN r \subseteq 1 .. NumHostsT
                          /\ \A h \in DOMAIN r : r[h].mac = None}

PortTablesT == {[p \in ProbePorts |-> "closed"]}

NextT ==
    \/ ScanConstructFails
    \/ ScanSweepFails(LocatorInputsT)
    \/ ScanSweep(LocatorInputsT, SweepResultsT)
    \/ HostSkip
    \/ HostProbe(PortTablesT)
    \/ MergeAcquire
    \/ MergeHost
    \/ EvictAcquire
    \/ EvictAndRecord
    \/ Sleep(MaxCyclesT, {0, MaxScanSecsT})
    \/ \E r \in Readers : ReaderRespond(r)
    \/ \E r \in Readers : ReaderReturn(r)

SpecT == Init /\ [][NextT]_vars

\* the eviction specification: as the timing specification, over more hosts
\* and fewer iterations, each instantaneous or long enough to outlast the
\* eviction window
SweepResultsE ==
    {r \in SweepResults : /\ DOMAIN r \subseteq 1 .. NumHostsE
                          /\ \A h \in DOMAIN r : r[h].mac = None}

NextE ==
    \/ ScanConstructFails
    \/ ScanSweepFails(LocatorInputsT)
    \/ ScanSweep(LocatorInputsT, SweepResultsE)
    \/ HostSkip
    \/ HostProbe(PortTablesT)
    \/ MergeAcquire
    \/ MergeHost
    \/ EvictAcquire
    \/ EvictAndRecord
    \/ Sleep(MaxCyclesE, {0, MaxScanSecs})
    \/ \E r \in Readers : ReaderRespond(r)
    \/ \E r \in Readers : ReaderReturn(r)

SpecE == Init /\ [][NextE]_vars

\* the eviction specification with cycles of the short duration: devices
\* recorded in consecutive cycles fall on both sides of a later cutoff
NextZ ==
    \/ ScanConstructFails
    \/ ScanSweepFails(LocatorInputsT)
    \/ ScanSweep(LocatorInputsT, SweepResultsE)
    \/ HostSkip
    \/ HostProbe(PortTablesT)
    \/ MergeAcquire
    \/ MergeHost
    \/ EvictAcquire
    \/ EvictAndRecord
    \/ Sleep(MaxCyclesZ, {0, ShortScanSecs})
    \/ \E r \in Readers : ReaderRespond(r)
    \/ \E r \in Readers : ReaderReturn(r)

SpecZ == Init /\ [][NextZ]_vars

\* the identity specification: every link identity a sweep may report, no
\* open port
SweepResultsI == {r \in SweepResults : DOMAIN r \subseteq 1 .. NumHostsI}

NextI ==
    \/ ScanConstructFails
    \/ ScanSweepFails(LocatorInputsT)
    \/ ScanSweep(LocatorInputsT, SweepResultsI)
    \/ HostSkip
    \/ HostProbe(PortTablesT)
    \/ MergeAcquire
    \/ MergeHost
    \/ EvictAcquire
    \/ EvictAndRecord
    \/ Sleep(MaxCyclesI, {0, MaxScanSecs})
    \/ \E r \in Readers : ReaderRespond(r)
    \/ \E r \in Readers : ReaderReturn(r)

SpecI == Init /\ [][NextI]_vars

\* the re-discovery specification: the hosts of the identity specification
\* report their link identity in the first sweep and none in the later ones,
\* over enough iterations to record a host, evict it and record it again
SweepResultsX ==
    {r \in SweepResultsI :
        \A h \in DOMAIN r :
            r[h].state = "up" =>
                IF cycle = 1 THEN r[h].mac = "m1" /\ r[h].vendor = "v1"
                             ELSE r[h].mac = None}

NextX ==
    \/ ScanConstructFails
    \/ ScanSweepFails(LocatorInputsT)
    \/ ScanSweep(LocatorInputsT, SweepResultsX)
    \/ HostSkip
    \/ HostProbe(PortTablesT)
    \/ MergeAcquire
    \/ MergeHost
    \/ EvictAcquire
    \/ EvictAndRecord
    \/ Sleep(MaxCyclesX, {0, MaxScanSecs})
    \/ \E r \in Readers : ReaderRespond(r)
    \/ \E r \in Readers : ReaderReturn(r)

SpecX == Init /\ [][NextX]_vars

\* the port specification: every host that answers reports no identity, its
\* port scan reports any state of the probed ports
SweepResultsP ==
    {r \in SweepResults : /\ DOMAIN r \subseteq 1 .. NumHostsP
                          /\ \A h \in DOMAIN r : r[h].mac = None}

NextP ==
    \/ ScanConstructFails
    \/ ScanSweepFails(LocatorInputsT)
    \/ ScanSweep(LocatorInputsT, SweepResultsP)
    \/ HostSkip
    \/ HostProbe(PortTables)
    \/ MergeAcquire
    \/ MergeHost
    \/ EvictAcquire
    \/ EvictAndRecord
    \/ Sleep(MaxCyclesP, {0, MaxScanSecs})
    \/ \E r \in Readers : ReaderRespond(r)
    \/ \E r \in Readers : ReaderReturn(r)

SpecP == Init /\ [][NextP]_vars

\* the history specification.  It starts where PastCycles iterations, run on
\* schedule from t = 0, leave the program when host 1 answered the second
\* sweep only: the host is counted by the cycles at t = 15 .. 60 and evicted
\* by the cycle at t = 75.
PastCycles == HISTORY_MAX - 1

PastHistory == [i \in 1 .. PastCycles |-> IF i \in 2 .. 5 THEN 1 ELSE 0]

InitH ==
    /\ devices = <<>>
    /\ device_count_history = PastHistory
    /\ network_cidr = "10.0.0.0/24"
    /\ lock = Free
    /\ pc = "start"
    /\ nm = <<>>
    /\ local_cidr = "10.0.0.0/24"
    /\ now = (PastCycles - 1) * SCAN_INTERVAL_SEC
    /\ seen_ips = {}
    /\ hosts_left = <<>>
    /\ host = NoHost
    /\ mac = None
    /\ vendor = None
    /\ open_ports = <<>>
    /\ vulns = <<>>
    /\ clock = PastCycles * SCAN_INTERVAL_SEC
    /\ cycle = PastCycles + 1
    /\ rpc = [r \in Readers |-> "idle"]
    /\ response = [r \in Readers |-> NoResponse]
    /\ outcome = "completed"
    /\ sweep_up = {}
    /\ probed = <<>>
    /\ stable = [devices |-> <<>>, history |-> PastHistory, network |-> "10.0.0.0/24"]
    /\ last_rec = [h \in Hosts |-> IF h = 1 THEN SCAN_INTERVAL_SEC ELSE -1]
    /\ last_up = [h \in Hosts |-> IF h = 1 THEN SCAN_INTERVAL_SEC ELSE -1]
    /\ missed = [h \in Hosts |-> IF h = 1 THEN PastCycles - 2 ELSE PastCycles]
    /\ appended = PastHistory
    /\ env = NoEnv

SweepResultsH ==
    {r \in SweepResults : /\ DOMAIN r \subseteq 1 .. NumHostsH
                          /\ \A h \in DOMAIN r : r[h].mac = None}

NextH ==
    \/ ScanConstructFails
    \/ ScanSweepFails(LocatorInputsT)
    \/ ScanSweep(LocatorInputsT, SweepResultsH)
    \/ HostSkip
    \/ HostProbe(PortTablesT)
    \/ MergeAcquire
    \/ MergeHost
    \/ EvictAcquire
    \/ EvictAndRecord
    \/ Sleep(PastCycles + MaxCyclesH, {0, MaxScanSecs})
    \/ \E r \in Readers : ReaderRespond(r)
    \/ \E r \in Readers : ReaderReturn(r)

SpecH == InitH /\ [][NextH]_vars

\* the display specification: the history specification started earlier,
\* where ShownCycles iterations leave the program, one sample short of the
\* 60 a response shows
ShownCycles == HISTORY_SHOWN - 1

ShownHistory == [i \in 1 .. ShownCycles |-> IF i \in 2 .. 5 THEN 1 ELSE 0]

InitS ==
    /\ devices = <<>>
    /\ device_count_history = ShownHistory
    /\ network_cidr = "10.0.0.0/24"
    /\ lock = Free
    /\ pc = "start"
    /\ nm = <<>>
    /\ local_cidr = "10.0.0.0/24"
    /\ now = (ShownCycles - 1) * SCAN_INTERVAL_SEC
    /\ seen_ips = {}
    /\ hosts_left = <<>>
    /\ host = NoHost
    /\ mac = None
    /\ vendor = None
    /\ open_ports = <<>>
    /\ vulns = <<>>
    /\ clock = ShownCycles * SCAN_INTERVAL_SEC
    /\ cycle = ShownCycles + 1
    /\ rpc = [r \in Readers |-> "idle"]
    /\ response = [r \in Readers |-> NoResponse]
    /\ outcome = "completed"
    /\ sweep_up = {}
    /\ probed = <<>>
    /\ stable = [devices |-> <<>>, history |-> ShownHistory, network |-> "10.0.0.0/24"]
    /\ last_rec = [h \in Hosts |-> IF h = 1 THEN SCAN_INTERVAL_SEC ELSE -1]
    /\ last_up = [h \in Hosts |-> IF h = 1 THEN SCAN_INTERVAL_SEC ELSE -1]
    /\ missed = [h \in Hosts |-> IF h = 1 THEN ShownCycles - 2 ELSE ShownCycles]
    /\ appended = ShownHistory
    /\ env = NoEnv

NextS ==
    \/ ScanConstructFails
    \/ ScanSweepFails(LocatorInputsT)
    \/ ScanSweep(LocatorInputsT, SweepResultsH)
    \/ HostSkip
    \/ HostProbe(PortTablesT)
    \/ MergeAcquire
    \/ MergeHost
    \/ EvictAcquire
    \/ EvictAndRecord
    \/ Sleep(ShownCycles + MaxCyclesH, {0, MaxScanSecs})
    \/ \E r \in Readers : ReaderRespond(r)
    \/ \E r \in Readers : ReaderReturn(r)

SpecS == InitS /\ [][NextS]_vars

\* the eviction specification with the scheduling the threads rely on: the
\* scanner thread keeps running (its probes return or raise), a request
\* leaves its critical section, and a thread waiting for the lock gets it
\* when it is released again and again
ThreadStepL ==
    \/ ScanConstructFails
    \/ ScanSweepFails(LocatorInputsT)
    \/ ScanSweep(LocatorInputsT, SweepResultsE)
    \/ HostSkip
    \/ HostProbe(PortTablesT)
    \/ MergeHost
    \/ EvictAndRecord
    \/ Sleep(MaxCyclesE, {0, MaxScanSecs})

FairnessL ==
    /\ WF_vars(ThreadStepL)
    /\ SF_vars(MergeAcquire)
    /\ SF_vars(EvictAcquire)
    /\ \A r \in Readers : WF_vars(ReaderReturn(r))

SpecL == Init /\ [][NextE]_vars /\ FairnessL

\* the request specification: the threads of the eviction specification over
\* NumHostsT hosts, scheduled as above, with requests that keep arriving: a
\* request waiting for the lock gets it when it is released again and again
SweepResultsR ==
    {r \in SweepResults : /\ DOMAIN r \subseteq 1 .. NumHostsT
                          /\ \A h \in DOMAIN r : r[h].mac = None}

ThreadStepR ==
    \/ ScanConstructFails
    \/ ScanSweepFails(LocatorInputsT)
    \/ ScanSweep(LocatorInputsT, SweepResultsR)
    \/ HostSkip
    \/ HostProbe(PortTablesT)
    \/ MergeHost
    \/ EvictAndRecord
    \/ Sleep(MaxCyclesR, {0, MaxScanSecs})

NextR ==
    \/ ThreadStepR
    \/ MergeAcquire
    \/ EvictAcquire
    \/ \E r \in Readers : ReaderRespond(r)
    \/ \E r \in Readers : ReaderReturn(r)

FairnessR ==
    /\ WF_vars(ThreadStepR)
    /\ SF_vars(MergeAcquire)
    /\ SF_vars(EvictAcquire)
    /\ \A r \in Readers : WF_vars(ReaderReturn(r))
    /\ \A r \in Readers : SF_vars(ReaderRespond(r))

SpecR == Init /\ [][NextR]_vars /\ FairnessR

\* the function specification: get_local_network is called in one of the
\* interface states, then the classification loop runs over one sorted list
\* of open ports, table ports and others
CandidatePorts == VulnPorts \cup {25, 8443}

PortLists == {SortedSeq(S) : S \in {T \in SUBSET CandidatePorts : Cardinality(T) <= MaxOpen}}

InitF ==
    /\ devices = <<>>
    /\ device_count_history = <<>>
    /\ network_cidr = INITIAL_CIDR
    /\ lock = Free
    /\ pc = "locate"
    /\ nm = <<>>
    /\ local_cidr = ""
    /\ now = 0
    /\ seen_ips = {}
    /\ hosts_left = <<>>
    /\ host = NoHost
    /\ mac = None
    /\ vendor = None
    /\ open_ports \in PortLists
    /\ vulns = <<>>
    /\ clock = 0
    /\ cycle = 1
    /\ rpc = [r \in Readers |-> "idle"]
    /\ response = [r \in Readers |-> NoResponse]
    /\ outcome = "none"
    /\ sweep_up = {}
    /\ probed = <<>>
    /\ stable = [devices |-> <<>>, history |-> <<>>, network |-> INITIAL_CIDR]
    /\ last_rec = [h \in Hosts |-> -1]
    /\ last_up = [h \in Hosts |-> -1]
    /\ missed = [h \in Hosts |-> 0]
    /\ appended = <<>>
    /\ env \in LocatorEnvs

\* local_cidr = get_local_network()
CallLocator ==
    /\ pc = "locate"
    /\ local_cidr' = get_local_network(env)
    /\ pc' = "classify"
    /\ UNCHANGED <<registry, lock, nm, now, seen_ips, hosts_left, host, mac, vendor,
                   open_ports, vulns, clock, cycle, readers, history_vars>>

\* vulns = []; for p in open_ports: ...
CallClassify ==
    /\ pc = "classify"
    /\ vulns' = Classify(open_ports)
    /\ pc' = "classified"
    /\ UNCHANGED <<registry, lock, nm, local_cidr, now, seen_ips, hosts_left, host, mac,
                   vendor, open_ports, clock, cycle, readers, history_vars>>

NextF ==
    \/ CallLocator
    \/ CallClassify

SpecF == InitF /\ [][NextF]_vars

(* ------------------------------- claims -------------------------------- *)
Known == DOMAIN devices

\* the state a finished iteration leaves: the scanner is in time.sleep
CycleCompleted == pc = "sleep" /\ outcome = "completed"

\* C1: whenever a reader holds the lock, the registry it reads is the registry
\* as some whole number of finished iterations left it.
C1_ReadersSeeWholeCycles ==
    \A r \in Readers : rpc[r] = "responding" => Snapshot = stable

\* C2: after a cycle that ran to its end, every host its sweep reported up has
\* a Device entry.
C2_EveryLiveHostRecorded ==
    CycleCompleted => sweep_up \subseteq Known

\* h was recorded by the cycle at t = 0, answered no later sweep, and k more
\* cycles completed, the last of them at time t
SeenOnceAtZero(h, t, k) ==
    /\ CycleCompleted
    /\ now = t
    /\ last_rec[h] = 0
    /\ last_up[h] = 0
    /\ missed[h] = k

\* C3 as stated: with cycles at t = 0, 15, 30, 45 a device seen at t = 0 only is
\* in the registry after the cycle at 30 and absent after the cycle at 45.
C3_GoneAfterCycleAt45 ==
    \A h \in Hosts :
        /\ SeenOnceAtZero(h, 2 * SCAN_INTERVAL_SEC, 2) => h \in Known
        /\ SeenOnceAtZero(h, 3 * SCAN_INTERVAL_SEC, 3) => h \notin Known

\* C3 amended: with cycles at t = 0, 15, 30, 45, 60 a device seen at t = 0 only
\* is in the registry after the cycles at 30 and at 45 and absent after the
\* cycle at 60.
C3_GoneAfterCycleAt60 ==
    \A h \in Hosts :
        /\ SeenOnceAtZero(h, 2 * SCAN_INTERVAL_SEC, 2) => h \in Known
        /\ SeenOnceAtZero(h, 3 * SCAN_INTERVAL_SEC, 3) => h \in Known
        /\ SeenOnceAtZero(h, 4 * SCAN_INTERVAL_SEC, 4) => h \notin Known

C3_Witness ==
    \E h \in Hosts : SeenOnceAtZero(h, 4 * SCAN_INTERVAL_SEC, 4) /\ h \notin Known

\* C4: between iterations, however they ended, an address is in the registry
\* if and only if it was recorded within the last 3 intervals before the
\* latest iteration.
C4_KnownIffSeenWithinWindow ==
    pc = "sleep" =>
        \A h \in Hosts :
            h \in Known <=> (last_rec[h] >= 0 /\ last_rec[h] >= Cutoff(clock))

\* C5: an iteration whose sweep raises leaves the device map unchanged and
\* appends one sample, the device count, to the history.
C5_FailedSweepStillAppends ==
    [][(pc = "start" /\ outcome' = "sweep_failed" /\ pc' = "sleep") =>
          /\ devices' = devices
          /\ device_count_history' = Append(device_count_history, Cardinality(Known))]_vars

\* C6 as stated: after a completed cycle, a device missing from the live hosts
\* in 3 or more consecutive completed cycles is absent from the registry.
C6_AbsentAfterThreeMisses ==
    \A h \in Hosts : (CycleCompleted /\ missed[h] >= STALE_CYCLES) => h \notin Known

\* the device's last answer is more than 3 intervals older than this cycle
Overdue(h) == now - last_up[h] > SCAN_INTERVAL_SEC * STALE_CYCLES

C6_AbsentWhenOverdue ==
    \A h \in Hosts :
        (CycleCompleted /\ missed[h] >= STALE_CYCLES
            /\ (Overdue(h) \/ missed[h] >= STALE_CYCLES + 1))
        => h \notin Known

C6_ListedOnlyIfKnown ==
    \A h \in Hosts :
        /\ (h \notin Known /\ h \in DOMAIN devices') => h \in sweep_up
        /\ \A r \in Readers :
              rpc'[r] = "responding"
              => (h \in DOMAIN response'[r].devices <=> h \in DOMAIN devices')

\* C6 amended: a device missing from the live hosts in 3 consecutive completed
\* cycles is absent from the registry after the third of them when that cycle
\* starts more than 45 s after the device last answered, and after the fourth
\* in any case; a response lists exactly the devices of the registry, and a
\* device enters the registry only in a cycle whose sweep reported it up.
C6_AbsentOnceOverdue ==
    []C6_AbsentWhenOverdue /\ [][C6_ListedOnlyIfKnown]_vars

C6_Witness ==
    \E h \in Hosts :
        /\ CycleCompleted
        /\ missed[h] = STALE_CYCLES
        /\ Overdue(h)
        /\ last_rec[h] >= 0
        /\ h \notin Known

\* C7: after every completed cycle, every address of seen_ips has an entry
\* whose last_seen is the cycle's now.
C7_SeenHaveLastSeenNow ==
    CycleCompleted => \A h \in seen_ips : h \in Known /\ devices[h].last_seen = now

C7_Witness ==
    /\ CycleCompleted
    /\ cycle = 2
    /\ now > 0
    /\ \E h \in seen_ips : h \in DOMAIN stable.devices /\ last_up[h] = now

\* C8: the eviction step of a cycle removes no address of that cycle's
\* seen_ips.
C8_LiveNeverEvicted ==
    [][pc = "evict" => \A h \in seen_ips : h \in Known => h \in DOMAIN devices']_vars

C8_Witness ==
    /\ CycleCompleted
    /\ \E h \in seen_ips : h \in Known
    /\ \E g \in Hosts : last_rec[g] >= 0 /\ g \notin Known

\* C9: a mac (vendor) that is set stays as it is in every step but the merge
\* of a report that carries a mac (vendor) for that address; a report with an
\* empty mac (vendor) leaves it as it is.
C9_IdentityKeptOnEmptyReport ==
    [][\A h \in Known \cap DOMAIN devices' :
          /\ (devices[h].mac # None /\ ~(pc = "merge" /\ host = h /\ mac # None))
             => devices'[h].mac = devices[h].mac
          /\ (devices[h].vendor # None /\ ~(pc = "merge" /\ host = h /\ vendor # None))
             => devices'[h].vendor = devices[h].vendor]_vars

C9_Witness ==
    /\ pc = "loop"
    /\ host \in Known
    /\ last_rec[host] = now
    /\ mac = None
    /\ devices[host].mac # None
    /\ devices[host].vendor # None

\* C10: a device the sweeps of two consecutive completed cycles report up has,
\* after the second, exactly the open ports the second cycle's port scan of it
\* found, and the findings of those ports.
C10_PortsOfLatestScan ==
    [][\A h \in Hosts :
          (pc = "evict" /\ outcome = "completed" /\ last_up[h] >= 0 /\ missed[h] = 0
              /\ h \in sweep_up)
          => /\ h \in DOMAIN devices'
             /\ h \in DOMAIN probed
             /\ Range(devices'[h].open_ports) = probed[h]
             /\ devices'[h].vulns = Classify(SortedSeq(probed[h]))]_vars

\* C11: in every state the history holds at most 200 samples and is, in
\* order, the most recent min(n, 200) of the n samples appended so far.
C11_HistoryIsLastAppended ==
    /\ Len(device_count_history) <= HISTORY_MAX
    /\ device_count_history = LastN(appended, HISTORY_MAX)

\* a reader is served after the 201st append: the oldest sample is gone, the
\* newest is last
C11_Witness ==
    /\ Len(appended) = HISTORY_MAX + 1
    /\ Len(device_count_history) = HISTORY_MAX
    /\ appended[1] # appended[2]
    /\ device_count_history[1] = appended[2]
    /\ device_count_history[HISTORY_MAX] = appended[HISTORY_MAX + 1]
    /\ \E r \in Readers : rpc[r] = "responding"

\* C12: the history changes in the final block only, which the scanner runs
\* holding the lock while no reader is served; the sample it appends is the
\* number of devices left once the entries older than the cutoff and not seen
\* in this cycle are deleted.
C12_SampleIsPostEvictionCount ==
    [][/\ device_count_history' # device_count_history => pc = "evict"
       /\ pc = "evict" =>
             /\ lock = Scanner
             /\ \A r \in Readers : rpc[r] = "idle"
             /\ DOMAIN devices' =
                   {ip \in Known : ~(devices[ip].last_seen < now - 3 * SCAN_INTERVAL_SEC
                                      /\ ip \notin seen_ips)}
             /\ device_count_history' # <<>>
             /\ device_count_history'[Len(device_count_history')] = Cardinality(DOMAIN devices')
             /\ appended' = Append(appended, Cardinality(DOMAIN devices'))]_vars

\* a cycle whose eviction removed a device: the new sample is below the one before
C12_Witness ==
    /\ CycleCompleted
    /\ Len(device_count_history) >= 2
    /\ device_count_history[Len(device_count_history)] = Cardinality(Known)
    /\ device_count_history[Len(device_count_history) - 1] > Cardinality(Known)

\* C13: every iteration of the loop, however it ends, is followed by the
\* next one (up to the number of iterations explored).
C13_NextCycleAlwaysStarts ==
    \A k \in 1 .. MaxCyclesE - 1 : (cycle = k) ~> (cycle = k + 1 /\ pc = "start")

\* an iteration starts after one that an exception ended
C13_Witness ==
    /\ cycle >= 2
    /\ pc = "start"
    /\ outcome = "aborted"

\* C14: for as long as a request is being served, its response is the summary
\* of the registry as it is: network, counts, history, tally and rows are of
\* one state, and no write of scan_once takes effect before the request returns.
C14_ResponseOfOneInstant ==
    \A r \in Readers :
        rpc[r] = "responding"
        => response[r] = Summary(devices, device_count_history, network_cidr)

\* a request is served while scan_once waits to merge a host the registry
\* does not hold yet
C14_Witness ==
    \E r \in Readers :
        /\ rpc[r] = "responding"
        /\ pc = "merge_wait"
        /\ host \notin Known
        /\ open_ports # <<>>
        /\ response[r].total >= 1

\* C15: the scanner thread holds the lock in its two critical sections only:
\* not before the Locator call and the sweep, not in the host loop where the
\* port scans run, not while it sleeps.
C15_NoLockDuringIO ==
    pc \in {"start", "loop", "merge_wait", "sleep"} => lock # Scanner

\* a request is served between the merge of one host and the port scan of
\* the next
C15_Witness ==
    /\ pc = "loop"
    /\ seen_ips # {}
    /\ hosts_left # <<>>
    /\ IsUp(nm, Head(hosts_left))
    /\ \E r \in Readers : lock = Reader(r)

\* C16: in every response, total is the number of device rows, vulnerable the
\* number of rows whose findings are not empty, safe + vulnerable = total and
\* safe >= 0; the rows are those of the devices in the registry.
C16_CountsMatchRows ==
    \A r \in Readers :
        rpc[r] = "responding" =>
            LET resp == response[r]
                listed == DOMAIN resp.devices
            IN  /\ listed = Known
                /\ resp.total = Cardinality(listed)
                /\ resp.vulnerable =
                      Cardinality({ip \in listed : Len(resp.devices[ip].vulns) > 0})
                /\ \A ip \in listed : resp.devices[ip].vulns = devices[ip].vulns
                /\ resp.safe + resp.vulnerable = resp.total
                /\ resp.safe >= 0

\* a response over a device with two findings and a device with none
C16_Witness ==
    \E r \in Readers :
        /\ rpc[r] = "responding"
        /\ response[r].total = 2
        /\ response[r].vulnerable = 1
        /\ response[r].safe = 1
        /\ \E ip \in DOMAIN response[r].devices : Len(response[r].devices[ip].vulns) = 2

\* C17: in every response, vuln_ports has an entry exactly for the ports of
\* the classifier table that some listed device has open, the entry is the
\* number of listed devices that have the port open, and no entry exceeds
\* the vulnerable count.
C17_TallyCountsDevicesPerPort ==
    \A r \in Readers :
        rpc[r] = "responding" =>
            LET resp == response[r]
                rows == resp.devices
                having(p) == {ip \in DOMAIN rows : p \in Range(rows[ip].open_ports)}
            IN  /\ DOMAIN resp.vuln_ports = {p \in VulnPorts : having(p) # {}}
                /\ \A p \in DOMAIN resp.vuln_ports :
                      /\ resp.vuln_ports[p] = Cardinality(having(p))
                      /\ resp.vuln_ports[p] <= resp.vulnerable
                /\ \A ip \in DOMAIN rows : rows[ip].open_ports = devices[ip].open_ports

\* a response over two devices: both have port 80 open, one has port 21 open
C17_Witness ==
    \E r \in Readers :
        /\ rpc[r] = "responding"
        /\ DOMAIN response[r].vuln_ports = {21, 80}
        /\ response[r].vuln_ports[80] = 2
        /\ response[r].vuln_ports[21] = 1
        /\ response[r].vulnerable = 2

\* C18: after every iteration that called the Locator, the sweep having
\* succeeded or failed, the range exposed to readers is the range the
\* Locator returned in that iteration.
C18_RangeIsLatestLocatorResult ==
    (pc = "sleep" /\ outcome \in {"completed", "sweep_failed"}) => network_cidr = local_cidr

\* the failures the claim lists: the query raises, no default route, the
\* address or the netmask is missing, the address or the netmask is malformed
LocatorFailure(e) ==
    \/ e.fault
    \/ ~e.route
    \/ e.addr \in {None, ""}
    \/ e.mask \in {None, ""}
    \/ e.addr \notin {"10.0.0.5", "192.168.7.9"}
    \/ e.mask \notin {"255.255.255.0", "255.255.0.0"}

\* C19: a call of get_local_network returns, and on every failure it returns
\* the fallback range.
C19_LocatorNeverRaises ==
    pc \in {"classify", "classified"} =>
        /\ local_cidr # Raised
        /\ LocatorFailure(env) => local_cidr = FALLBACK_CIDR

\* the call returned the fallback for a routed interface whose address is malformed
C19_Witness ==
    /\ pc = "classify"
    /\ ~env.fault
    /\ env.route
    /\ env.addr = "10.0.0.500"
    /\ env.mask = "255.255.255.0"
    /\ local_cidr = FALLBACK_CIDR

\* the severity the claim gives for each port of the table
ClaimedSeverity ==
    (21 :> "HIGH") @@ (22 :> "INFO") @@ (23 :> "CRITICAL") @@ (80 :> "MEDIUM")
    @@ (443 :> "INFO") @@ (554 :> "MEDIUM") @@ (8080 :> "MEDIUM")

\* the findings of a classified list: one per table port of the list, in the
\* order of the list, with the claimed severity
C20_FindingsOfTablePorts ==
    pc = "classified" =>
        LET listed == SortedSeq(Range(open_ports) \cap DOMAIN ClaimedSeverity)
        IN  /\ Len(vulns) = Len(listed)
            /\ \A i \in 1 .. Len(listed) :
                  vulns[i] = "[" \o ClaimedSeverity[listed[i]] \o "] " \o VULN_HINTS(listed[i])[2]

C20_ClassifyChangesNothingElse ==
    pc = "classify" =>
        UNCHANGED <<registry, lock, nm, local_cidr, now, seen_ips, hosts_left, host, mac,
                    vendor, open_ports, clock, cycle, readers, history_vars>>

\* C20: classifying a list of open ports yields, for each port of the table,
\* the finding of the claimed severity (21 HIGH, 22 INFO, 23 CRITICAL,
\* 80 MEDIUM, 443 INFO, 554 MEDIUM, 8080 MEDIUM) and nothing for any other
\* port, the same for the same port whatever the other ports and the
\* interface state, and changes nothing but the list of findings.
C20_ClassifyIsTableLookup ==
    []C20_FindingsOfTablePorts /\ [][C20_ClassifyChangesNothingElse]_vars

\* a list of a port outside the table and a table port was classified
C20_Witness ==
    /\ pc = "classified"
    /\ open_ports = <<23, 25>>
    /\ vulns = <<"[CRITICAL] Telnet (23)">>

\* C21: the history of a response is the newest min(60, n) of the n samples
\* of the registry history, in their order.
C21_ShownHistoryIsNewest60 ==
    \A r \in Readers :
        rpc[r] = "responding" =>
            LET n == Len(device_count_history)
                k == IF n < 60 THEN n ELSE 60
                shown == response[r].history
            IN  /\ Len(shown) = k
                /\ \A i \in 1 .. k : shown[i] = device_count_history[n - k + i]

\* a response shows 60 of 61 samples: the oldest is left out, the newest is last
C21_Witness ==
    \E r \in Readers :
        /\ rpc[r] = "responding"
        /\ Len(device_count_history) = 61
        /\ Len(response[r].history) = 60
        /\ device_count_history[1] # device_count_history[2]
        /\ response[r].history[1] = device_count_history[2]
        /\ response[r].history[60] = 1

\* C22: in every state, each device's open_ports are in ascending order
\* without repetition and its findings are the table entries of those of its
\* open ports that the table holds, in that order.
C22_FindingsFollowOpenPorts ==
    \A ip \in Known :
        LET ports == devices[ip].open_ports
            tabled == SortedSeq(Range(ports) \cap VulnPorts)
            found == devices[ip].vulns
        IN  /\ \A i \in 1 .. Len(ports) - 1 : ports[i] < ports[i + 1]
            /\ Len(found) = Len(tabled)
            /\ \A i \in 1 .. Len(tabled) : found[i] = FormatVuln(tabled[i])

\* a merge has replaced the ports 21 and 80 of the last finished cycle by
\* port 80 alone, and the findings with them
C22_Witness ==
    \E h \in Known \cap DOMAIN stable.devices :
        /\ pc = "loop"
        /\ stable.devices[h].open_ports = <<21, 80>>
        /\ Len(stable.devices[h].vulns) = 2
        /\ devices[h].open_ports = <<80>>
        /\ devices[h].vulns = <<"[MEDIUM] HTTP (80)">>

\* nm still holds the sweep's entry of h: no port scan has replaced the
\* scan result since the sweep
SweepEntryKept(h) == h \in DOMAIN nm /\ nm[h].ports = <<>>

\* the port scan of a live host raised: the host waits for its merge with
\* empty lists
C23_RaisedScanLeavesEmptyLists ==
    (pc = "merge_wait" /\ SweepEntryKept(host)) =>
        /\ host \in seen_ips
        /\ open_ports = <<>>
        /\ vulns = <<>>

\* while every port scan of the cycle has raised, every live host the loop
\* has passed is in the registry with last_seen = now and empty lists
C23_PassedHostsMerged ==
    (pc = "loop" /\ \A h \in DOMAIN nm : nm[h].ports = <<>>) =>
        \A h \in sweep_up \ Range(hosts_left) :
            /\ h \in Known
            /\ devices[h].last_seen = now
            /\ devices[h].open_ports = <<>>
            /\ devices[h].vulns = <<>>

\* the merge after a raised port scan goes back to the loop over the same
\* scan result, and a cycle that has entered the loop ends only by the
\* final block, which appends a sample
C23_CycleGoesOn ==
    /\ (pc = "merge" /\ SweepEntryKept(host)) =>
          /\ pc' = "loop"
          /\ nm' = nm
          /\ hosts_left' = hosts_left
          /\ host \in DOMAIN devices'
          /\ devices'[host].last_seen = now
    /\ (pc \in {"loop", "merge_wait", "merge", "evict"} /\ pc' = "sleep") =>
          /\ pc = "evict"
          /\ outcome' = "completed"
          /\ Len(appended') = Len(appended) + 1

\* C23: if the port scan of a live host raises, the host is merged in that
\* cycle with last_seen = now and with empty open_ports and findings, and the
\* cycle goes on with the remaining hosts, the eviction and the history append.
C23_RaisedPortScanIsSwallowed ==
    /\ []C23_RaisedScanLeavesEmptyLists
    /\ []C23_PassedHostsMerged
    /\ [][C23_CycleGoesOn]_vars

\* a device with findings after the last cycle was merged without any after
\* its port scan raised, and the next host of the sweep is still to come
C23_Witness ==
    \E h \in Known \cap DOMAIN stable.devices :
        /\ pc = "loop"
        /\ SweepEntryKept(h)
        /\ stable.devices[h].vulns # <<>>
        /\ devices[h].vulns = <<>>
        /\ devices[h].last_seen = now
        /\ hosts_left # <<>>
        /\ IsUp(nm, Head(hosts_left))

\* the final block of a cycle whose sweep found no live host
C24_EmptySweepFinalBlock ==
    /\ (pc = "loop" /\ sweep_up = {}) =>
          /\ pc' \in {"loop", "evict"}
          /\ devices' = devices
          /\ appended' = appended
    /\ (pc = "evict" /\ sweep_up = {}) =>
          LET kept == {ip \in Known :
                          ~(devices[ip].last_seen < now - 3 * SCAN_INTERVAL_SEC)}
          IN  /\ pc' = "sleep"
              /\ outcome' = "completed"
              /\ DOMAIN devices' = kept
              /\ \A ip \in kept : devices'[ip] = devices[ip]
              /\ appended' = Append(appended, Cardinality(kept))

\* C24: a cycle whose sweep succeeds with no live host still runs the eviction
\* and appends one sample: exactly the devices whose last_seen is older than
\* now - 3 * SCAN_INTERVAL_SEC are removed, every other device is unchanged.
C24_EmptySweepStillEvicts == [][C24_EmptySweepFinalBlock]_vars

\* a finished cycle without a live host that removed one recorded device and
\* kept another as it was
C24_Witness ==
    /\ CycleCompleted
    /\ sweep_up = {}
    /\ \E gone \in Hosts \ Known :
          /\ last_rec[gone] >= 0
          /\ last_rec[gone] < now - 3 * SCAN_INTERVAL_SEC
          /\ \E kept \in Known :
                /\ ~(devices[kept].last_seen < now - 3 * SCAN_INTERVAL_SEC)
                /\ devices[kept].last_seen < now
                /\ device_count_history[Len(device_count_history)] = 1

\* C25: a Device entry leaves the registry only through the eviction step of
\* scan_once; the removed address was not live in that cycle and had last_seen
\* older than the cutoff; no other operation deletes an entry.
C25_OnlyEvictionRemovesDeadHosts ==
    [][\A h \in Known \ DOMAIN devices' :
          /\ pc = "evict"
          /\ pc' = "sleep"
          /\ h \notin sweep_up
          /\ devices[h].last_seen < now - 3 * SCAN_INTERVAL_SEC]_vars

\* a step of a reader leaves the registry as it is, and a step that changes
\* the registry is a step of the scanner inside one of its critical sections
C26_ReaderStepsKeepRegistry ==
    /\ rpc' # rpc => registry' = registry
    /\ registry' # registry =>
          /\ pc \in {"merge", "evict"}
          /\ lock = Scanner
          /\ rpc' = rpc

\* C26: api_summary is read-only: a call leaves the device map, the history
\* and the network range unchanged, and whatever calls were served the registry
\* is as the scanner last wrote it.
C26_SummaryIsReadOnly ==
    /\ [][C26_ReaderStepsKeepRegistry]_vars
    /\ [](pc \in {"sleep", "start"} => Snapshot = stable)

\* a request answered in the middle of a cycle from a registry that holds a
\* device, a sample and a detected range
C26_Witness ==
    \E r \in Readers :
        /\ rpc[r] = "responding"
        /\ pc = "merge_wait"
        /\ response[r].total > 0
        /\ response[r].history # <<>>
        /\ \E ip \in Known : response[r].devices[ip].mac = "Unknown" /\ devices[ip].mac = None
        /\ network_cidr # INITIAL_CIDR
        /\ Snapshot # stable

\* C27: the mac (vendor) of an entry is written only while it is unset: no
\* step changes a mac (vendor) that is set, whatever the cycle reports for the
\* address.
C27_SetIdentityIsNeverRewritten ==
    [][\A h \in Known \cap DOMAIN devices' :
          /\ devices[h].mac # None => devices'[h].mac = devices[h].mac
          /\ devices[h].vendor # None => devices'[h].vendor = devices[h].vendor]_vars

\* an entry holding m1 and v1 was merged in a later cycle whose sweep reported
\* m2 and v2 for its address
C27_Witness ==
    /\ pc = "loop"
    /\ host \in Known
    /\ last_rec[host] = now
    /\ now > 0
    /\ mac = "m2"
    /\ vendor = "v2"
    /\ devices[host].mac = "m1"
    /\ devices[host].vendor = "v1"

\* C28: in every iteration the sleep of the fixed interval comes before the
\* iteration's scan: when the k-th call of scan_once begins (scanner
\* construction, Locator call, sweep) k intervals have been slept; in
\* particular no scan starts before the first interval has elapsed.
C28_SleepComesBeforeScan ==
    [][(pc = "start" /\ pc' # "start") => clock >= cycle * SCAN_INTERVAL_SEC]_vars

\* the lock is held exactly by a thread inside one of its critical sections:
\* the scanner in its per-host block or its final block, a request while its
\* response is built
C29_LockHeldInsideSectionsOnly ==
    /\ lock = Scanner <=> pc \in {"merge", "evict"}
    /\ \A r \in Readers : lock = Reader(r) <=> rpc[r] = "responding"

\* C29: the lock is released on every way out of the critical sections of
\* scan_once and of api_summary, so there is no deadlock; under fair scheduling
\* a held lock is released, every request acquires the lock and returns, and
\* the scanner waiting for either of its critical sections enters it.
C29_LockAlwaysReleased ==
    /\ []C29_LockHeldInsideSectionsOnly
    /\ (lock # Free) ~> (lock = Free)
    /\ \A r \in Readers : (rpc[r] = "idle") ~> (rpc[r] = "responding")
    /\ \A r \in Readers : (rpc[r] = "responding") ~> (rpc[r] = "idle")
    /\ (pc = "merge_wait") ~> (pc = "merge")
    /\ (pc = "loop" /\ hosts_left = <<>>) ~> (pc = "evict")

\* the scanner waits for its per-host block while a request holds the lock
C29_Witness ==
    \E r \in Readers :
        /\ pc = "merge_wait"
        /\ lock = Reader(r)
        /\ rpc[r] = "responding"
        /\ cycle >= 2

\* the final block leaves no entry, and so no identity, of a host that was not
\* seen in the cycle and was last recorded before the cutoff
C30_EvictedEntryIsGone ==
    CycleCompleted =>
        \A h \in Hosts \ seen_ips :
            (last_rec[h] >= 0 /\ last_rec[h] < now - 3 * SCAN_INTERVAL_SEC) => h \notin Known

\* the merge of an address that has no entry stores this cycle's report and
\* nothing else
C30_NewEntryIsOfThisCycle ==
    (pc = "merge" /\ host \notin Known) =>
        /\ host \in DOMAIN devices'
        /\ devices'[host] = [ip |-> host, mac |-> mac, vendor |-> vendor,
                             open_ports |-> open_ports, vulns |-> vulns,
                             last_seen |-> now]

\* a row shows "Unknown" for a mac or vendor the entry does not hold
C30_RowsShowUnknown ==
    \A r \in Readers :
        rpc[r] = "responding" =>
            \A ip \in Known :
                /\ devices[ip].mac = None => response[r].devices[ip].mac = "Unknown"
                /\ devices[ip].vendor = None => response[r].devices[ip].vendor = "Unknown"

\* C30: link identity does not survive eviction: an evicted entry is deleted
\* whole, the entry of a re-discovered address is created from that cycle's
\* report only, and a reader sees "Unknown" for mac and vendor if that report
\* has no mac, although both were known before the eviction.
C30_IdentityLostOnEviction ==
    /\ []C30_EvictedEntryIsGone
    /\ [][C30_NewEntryIsOfThisCycle]_vars
    /\ []C30_RowsShowUnknown

\* a host recorded with mac and vendor by the first cycle, evicted by the
\* second and recorded again by the third, whose sweep reported no mac, is
\* shown with "Unknown" for both
C30_Witness ==
    \E r \in Readers : \E h \in Known :
        /\ rpc[r] = "responding"
        /\ cycle = 3
        /\ Len(appended) = 2
        /\ appended[1] = NumHostsI
        /\ appended[2] = 0
        /\ last_rec[h] = now
        /\ devices[h].mac = None
        /\ devices[h].vendor = None
        /\ response[r].devices[h].mac = "Unknown"
        /\ response[r].devices[h].vendor = "Unknown"

=============================================================================
